---------------------------- MODULE Spec2Model ----------------------------
(***************************************************************************)
(* A model of mkdocs_translator: the command line run (cli.py), the        *)
(* change-detection ledger (metadata.py), the blacklist (utils.py) and the *)
(* streaming translation client (translator.py).                           *)
(*                                                                         *)
(* Spec      the command line run, repeated over one source tree           *)
(* SpecText  one DocumentTranslator.translate_text call against a service  *)
(* SpecFile  one DocumentTranslator.translate_file call made directly      *)
(* SpecProcess  such a call, and what process_file does with its result    *)
(* SpecLedger threads that translate a file each and record it in one      *)
(*           MetadataManager, as process_file does on success              *)
(***************************************************************************)
EXTENDS Integers, Sequences, FiniteSets, TLC

VARIABLES
    \* ---- the source tree and the files beside it (disk) ----
    source,                 \* [Files -> bytes]: the bytes of each source file
    unreadable,             \* the source files open() refuses to read
    blacklist_lines,        \* the patterns held by <source>/.translate-blacklist
    source_path,            \* Path(source): --source as given, a sequence of components
    metadata_json,          \* <source>/metadata.json, the long-lived ledger
    last_metadata_json,     \* <source>/last-metadata.json, the per-run ledger
    \* ---- one run of translate() (cli.py) ----
    pc,                     \* where the main thread of the run is
    exception,              \* the exception that ended the run, or "none"
    workers,                \* --workers
    metadata_manager,       \* MetadataManager(metadata_path).metadata
    last_metadata_manager,  \* MetadataManager(last_metadata_path).metadata
    tasks,                  \* [(file, i % workers)] in dispatch order
    future,                 \* the state of each task's future, "unsubmitted" before it exists
    next_task,              \* the head of the executor's work queue
    thread,                 \* [pool thread -> the task it runs, 0 when idle]
    collected,              \* the futures as_completed has handed to the main thread
    success_count,
    error_count,
    \* ---- history of the runs ----
    runs,                   \* runs started so far
    modified,               \* files edited between the previous run and this one
    tree_touched,           \* the tree was edited or chmod-ed between the previous run and this one
    touches,                \* edits and chmods of the tree so far
    dispatched,             \* the task list as line 111 built it for this run
    \* ---- one call of DocumentTranslator.translate_text (translator.py) ----
    response_mode,          \* self.response_mode
    tpc,                    \* where the call is: idle, send, stream, blocking, returned, raised
    requests,               \* the payload of every requests.post of the call
    full_translation,       \* the text each turn appended
    conversation_id,
    cumulative_usage,
    current_translation,    \* the fragments of the turn being read
    chunk_count,            \* fragments received so far in the call
    reached_token_limit,
    metadata,               \* the local variable metadata: <<>> while unbound, else <<dict>>
    result,                 \* <<>>, or <<the pair translate_text returned>>
    \* ---- what the service sent ----
    line_in,                \* what the latest step consumed: a stream line, a payload, a marker
    outputs,                \* the text of each finished turn as the service sent it
    reports,                \* the usage each finished turn reported: <<usage>>, or <<>> for none
    \* ---- one call of DocumentTranslator.translate_file (translator.py) ----
    target_file,            \* the target file: <<>> while absent, else <<its text>>
    target_before,          \* the target file as the call found it
    file_result,            \* <<>>, or <<the pair translate_file returned>>
    \* ---- one MetadataManager shared by threads (metadata.py) ----
    caller,                 \* [thread -> where it is, its file, what it read, its dump]
    self_metadata,          \* self.metadata: the items of the dict in insertion order
    ledger_file             \* the bytes of self.metadata_file, as a sequence of tokens

vars_tree == <<source, unreadable, blacklist_lines, source_path,
               metadata_json, last_metadata_json>>
vars_run  == <<pc, exception, workers, metadata_manager, last_metadata_manager,
               tasks, future, next_task, thread, collected, success_count,
               error_count>>
vars_hist == <<runs, modified, tree_touched, touches, dispatched>>
vars_text == <<response_mode, tpc, requests, full_translation, conversation_id,
               cumulative_usage, current_translation, chunk_count, reached_token_limit,
               metadata, result, line_in, outputs, reports>>
vars_file == <<target_file, target_before, file_result>>
vars_ledger == <<caller, self_metadata, ledger_file>>
vars      == <<vars_tree, vars_run, vars_hist, vars_text, vars_file, vars_ledger>>

-----------------------------------------------------------------------------
(* Bounds of the model.                                                    *)
MaxRuns       == 2    \* runs of the command over the same tree
MaxWorkers    == 2    \* largest --workers
MaxContent    == 2    \* distinct byte contents a source file may take
MaxTouches    == 2    \* edits and chmods of the source tree over a behaviour
MaxTurns      == 3    \* requests of one translate_text call
MaxChunks     == 4    \* answer fragments the service sends over one call

-----------------------------------------------------------------------------
(* Paths are sequences of path tokens, so that prefix and suffix tests are *)
(* computed and not assumed: d/x.md, d.md, n.md and metadata.json.         *)
F1 == <<"d", "/", "x", ".md">>
F2 == <<"d", ".md">>
F3 == <<"n", ".md">>
MetadataFile == <<"metadata", ".json">>

Tree  == {F1, F2, F3, MetadataFile}
Files == {F1, F2, F3}

Contents == 1..MaxContent

\* utils.get_translatable_files: the files of the tree ending in .md or .pages
TranslatableExtensions == {".md", ".pages"}

get_translatable_files(tree) ==
    {p \in tree : p[Len(p)] \in TranslatableExtensions}

\* str.startswith and str.endswith('/') on token sequences
StartsWith(s, prefix) ==
    /\ Len(prefix) <= Len(s)
    /\ SubSeq(s, 1, Len(prefix)) = prefix

EndsWithSlash(s) == Len(s) > 0 /\ s[Len(s)] = "/"

\* cli.is_blacklisted: exact match, or a pattern ending in '/' that is a prefix
is_blacklisted(file_path, blacklist) ==
    \/ file_path \in blacklist
    \/ \E pattern \in blacklist :
          EndsWithSlash(pattern) /\ StartsWith(file_path, pattern)

\* The source directory is /srv/docs; a directory is the sequence of names
\* that leads to it from the root. The source directory and d are the
\* directories of the tree, and the blacklist file is in the source directory.
SourceDirectory == <<"srv", "docs">>
Directories     == {<<>>, <<"srv">>, SourceDirectory, Append(SourceDirectory, "d")}
BlacklistFile   == Append(SourceDirectory, ".translate-blacklist")

\* --source as an absolute path, as the current directory (run from the source
\* directory), as a relative path (run from /srv), as ../docs (run from the
\* source directory)
AbsoluteSource == <<"/", "srv", "docs">>
DotSource      == <<".">>
RelativeSource == <<"docs">>
ParentSource   == <<"..", "docs">>

is_absolute(path) == Len(path) > 0 /\ path[1] = "/"

\* pathlib: a / b is b when b is absolute, else the components of a and b
\* without the '.' components
path_join(a, b) ==
    IF is_absolute(b) THEN b
    ELSE SelectSeq(a \o b, LAMBDA c : c # ".")

\* The file system follows the components of a path from a directory: '..'
\* leads to the parent, a name to the entry of that name, and every component
\* but the last must lead from a directory that exists. <<>> when it does not.
RECURSIVE walk(_, _)
walk(dir, components) ==
    IF components = <<>> THEN <<dir>>
    ELSE IF dir \notin Directories THEN <<>>
    ELSE LET c == Head(components) IN
         walk(CASE c = "."  -> dir
                [] c = ".." -> (IF dir = <<>> THEN dir ELSE SubSeq(dir, 1, Len(dir) - 1))
                [] OTHER    -> Append(dir, c),
              Tail(components))

\* Where a path that begins with source_dir leads: source_dir leads to the
\* source directory, the rest of the path is followed from there.
locate(path, source_dir) ==
    IF is_absolute(path) THEN walk(<<>>, Tail(path))
    ELSE LET prefix == SelectSeq(source_dir, LAMBDA c : c # ".") IN
         walk(SourceDirectory, SubSeq(path, Len(prefix) + 1, Len(path)))

\* cli.py 36-39 and utils.load_blacklist: blacklist_file is source_path /
\* '.translate-blacklist'; the path handed to load_blacklist is source_path /
\* blacklist_file, and the lines are read when blacklist_path.exists(), that
\* is when the path leads to the blacklist file.
load_blacklist(lines, source_dir) ==
    LET blacklist_file == path_join(source_dir, <<".translate-blacklist">>)
        blacklist_path == path_join(source_dir, blacklist_file)
    IN  IF locate(blacklist_path, source_dir) = <<BlacklistFile>> THEN lines ELSE {}

\* MetadataManager.get_file_hash: hashlib.sha256 of the bytes, taken as
\* collision free; the digest is not the bytes.
Sha256(bytes) == <<"sha256", bytes>>

EmptyLedger == [f \in {} |-> [hash |-> Sha256(1)]]

\* MetadataManager.needs_translation, for a readable file
needs_translation_flip(ledger, file_path, bytes) ==
    LET current_hash == Sha256(bytes) IN
    IF file_path \notin DOMAIN ledger THEN TRUE
    ELSE ledger[file_path].hash = current_hash

needs_translation(ledger, file_path, bytes) ==
    LET current_hash == Sha256(bytes) IN
    IF file_path \notin DOMAIN ledger THEN TRUE
    ELSE ledger[file_path].hash # current_hash

\* MetadataManager.clear_metadata: the ledger it leaves in memory and on disk
clear_metadata_keep(ledger) == ledger

clear_metadata(ledger) == EmptyLedger

\* The permutations of a finite set: the orders in which the set returned by
\* get_translatable_files may be iterated.
Orders(S) ==
    {o \in [1..Cardinality(S) -> S] : \A i, j \in 1..Cardinality(S) : o[i] = o[j] => i = j}

\* Line 111: tasks = [(file, i % workers) for i, file in enumerate(files)];
\* sequences are indexed from 1.
assign_workers_div(files, w) ==
    [i \in 1..Len(files) |-> [file |-> files[i], worker_id |-> (i - 1) \div w]]

assign_workers(files, w) ==
    [i \in 1..Len(files) |-> [file |-> files[i], worker_id |-> (i - 1) % w]]

\* Lines 114-118: the dict worker_tasks, from each worker id that has a task
\* to the list of its files in task order.
worker_tasks(ts) ==
    [id \in {ts[i].worker_id : i \in 1..Len(ts)} |->
        LET mine == SelectSeq(ts, LAMBDA t : t.worker_id = id)
        IN  [k \in 1..Len(mine) |-> mine[k].file]]

\* The keywords process_file passes to translate_file after the two positional
\* arguments, and the parameters translate_file declares.
ProcessFileKeywords == {"position", "desc", "current_file", "total_files"}
TranslateFileParameters == {"source_path", "target_path", "position", "desc"}

\* A signature that took any keyword (**kwargs) would bind every call.
CallBinds_any_keyword(keywords, parameters) == TRUE

\* Python binds a call only if every keyword names a parameter.
CallBinds(keywords, parameters) == keywords \subseteq parameters

-----------------------------------------------------------------------------
(* DocumentTranslator.translate_text. Texts are sequences of characters.   *)

TokenCeiling  == 8192   \* completion tokens at which a turn counts as truncated
OverlapWindow == 100    \* characters of the previous text searched for in the next

\* The fragments the service sends: a short one and one as long as the
\* overlap window.
Pad == [i \in 1..OverlapWindow |-> "x"]
Chunks == {<<"a">>, Pad}

\* "".join(list)
RECURSIVE Join(_)
Join(list) == IF list = <<>> THEN <<>> ELSE Head(list) \o Join(Tail(list))

\* s[-n:] and s[n:]
LastChars(s, n) == SubSeq(s, (IF Len(s) > n THEN Len(s) - n + 1 ELSE 1), Len(s))
DropChars(s, n) == SubSeq(s, n + 1, Len(s))

\* str.find: the lowest index at which sub occurs in s, -1 when it does not
Find(s, sub) ==
    LET hits == {i \in 0..(Len(s) - Len(sub)) : SubSeq(s, i + 1, i + Len(sub)) = sub}
    IN  IF hits = {} THEN -1 ELSE CHOOSE i \in hits : \A j \in hits : i <= j

\* The usage a terminal record or a blocking payload carries; prices in
\* integer units.
Usage(completion) ==
    [prompt_tokens |-> 3, completion_tokens |-> completion,
     total_tokens |-> 3 + completion,
     prompt_price |-> 1, completion_price |-> 2, total_price |-> 3]

Usages == {Usage(TokenCeiling - 1), Usage(TokenCeiling)}

\* A usage whose reported total is not its prompt plus its completion tokens.
UsageInconsistent ==
    [prompt_tokens |-> 3, completion_tokens |-> 5, total_tokens |-> 9,
     prompt_price |-> 1, completion_price |-> 2, total_price |-> 3]

\* The JSON objects of the service.
Answer(chunk)      == [event |-> "message", answer |-> chunk]
AnswerError(chunk) == [event |-> "message", answer |-> chunk, error |-> "boom"]
ErrorRecord        == [event |-> "error", error |-> "boom"]
MessageEnd(usage)  == [event |-> "message_end", conversation_id |-> "c1",
                       metadata |-> [usage |-> usage]]
MessageEndError(usage) ==
    [event |-> "message_end", conversation_id |-> "c1",
     metadata |-> [usage |-> usage], error |-> "boom"]
MessageEndNoUsage  == [event |-> "message_end", conversation_id |-> "c1",
                       metadata |-> [retriever_resources |-> "r"]]
MessageEndNoMetadata == [event |-> "message_end", conversation_id |-> "c1"]
MessageEndNoConversation(usage) ==
    [event |-> "message_end", metadata |-> [usage |-> usage]]

\* A stream line: whether it starts with 'data: ', and what follows: nothing,
\* text that is not JSON, or a JSON object.
BlankLine            == [prefix |-> FALSE, kind |-> "empty"]
NoiseLine(prefix)    == [prefix |-> prefix, kind |-> "noise"]
JsonLine(prefix, data) == [prefix |-> prefix, kind |-> "json", data |-> data]

\* What a step that reads no stream line consumed.
NoLine      == [kind |-> "none"]
EndOfStream == [kind |-> "end of stream"]
Status(code) == [kind |-> "status", code |-> code]
Payload(data) == [kind |-> "payload", data |-> data]

\* line[6:] when line.startswith('data: ')
strip_prefix(line) == IF line.prefix THEN [line EXCEPT !.prefix = FALSE] ELSE line

\* json.loads: <<the object>>, or <<>> for json.JSONDecodeError
json_loads_strict(text) ==
    IF text.kind = "json" THEN <<text.data>> ELSE <<ErrorRecord>>

json_loads(text) == IF text.kind = "json" THEN <<text.data>> ELSE <<>>

ZeroUsage ==
    [prompt_tokens |-> 0, completion_tokens |-> 0, total_tokens |-> 0,
     prompt_price |-> 0, completion_price |-> 0, total_price |-> 0,
     currency |-> "USD"]

\* Lines 148-153 and 191-196: add a turn's usage to the cumulative usage.
accumulate_last_only(cumulative, usage) ==
    [cumulative EXCEPT
        !.prompt_tokens = usage.prompt_tokens,
        !.completion_tokens = usage.completion_tokens,
        !.total_tokens = usage.prompt_tokens + usage.completion_tokens,
        !.prompt_price = @ + usage.prompt_price,
        !.completion_price = @ + usage.completion_price,
        !.total_price = @ + usage.total_price]

accumulate(cumulative, usage) ==
    [cumulative EXCEPT
        !.prompt_tokens = @ + usage.prompt_tokens,
        !.completion_tokens = @ + usage.completion_tokens,
        !.total_tokens = (cumulative.prompt_tokens + usage.prompt_tokens)
                         + (cumulative.completion_tokens + usage.completion_tokens),
        !.prompt_price = @ + usage.prompt_price,
        !.completion_price = @ + usage.completion_price,
        !.total_price = @ + usage.total_price]

\* Line 158: cumulative_usage["exceed_token_limit"] = True
set_exceed_token_limit(cumulative) ==
    [k \in DOMAIN cumulative \cup {"exceed_token_limit"} |->
        IF k = "exceed_token_limit" THEN TRUE ELSE cumulative[k]]

\* Line 155: the turn was truncated
at_token_limit(usage) == usage.completion_tokens >= TokenCeiling

\* Lines 202-213: the text a turn appends to full_translation
resolve_overlap_keep_key(full, current_text) ==
    IF full # <<>>
    THEN LET last_part == LastChars(full[Len(full)], OverlapWindow)
             overlap_start == Find(current_text, last_part)
         IN  IF overlap_start # -1
             THEN DropChars(current_text, overlap_start)
             ELSE current_text
    ELSE current_text

resolve_overlap(full, current_text) ==
    IF full # <<>>
    THEN LET last_part == LastChars(full[Len(full)], OverlapWindow)
             overlap_start == Find(current_text, last_part)
         IN  IF overlap_start # -1
             THEN DropChars(current_text, overlap_start + Len(last_part))
             ELSE current_text
    ELSE current_text

\* Lines 215-220 and 237-238: the metadata translate_text returns. A dict
\* is a record; 'if metadata' is false for the empty dict.
last_metadata_of(md, cumulative) ==
    IF DOMAIN md = {} THEN md
    ELSE LET copy == IF "usage" \in DOMAIN md
                     THEN [k \in DOMAIN md |-> IF k = "usage" THEN cumulative ELSE md[k]]
                     ELSE md
         IN  [k \in DOMAIN copy \cup {"translation_time"} |->
                 IF k = "translation_time" THEN "seconds" ELSE copy[k]]

\* No translate_text call is in progress.
NoCall ==
    /\ response_mode = "streaming"
    /\ tpc = "idle"
    /\ requests = <<>>
    /\ full_translation = <<>>
    /\ conversation_id = ""
    /\ cumulative_usage = ZeroUsage
    /\ current_translation = <<>>
    /\ chunk_count = 0
    /\ reached_token_limit = FALSE
    /\ metadata = <<>>
    /\ result = <<>>
    /\ line_in = NoLine
    /\ outputs = <<>>
    /\ reports = <<>>

\* No translate_file call is in progress.
NoFile ==
    /\ target_file = <<>>
    /\ target_before = <<>>
    /\ file_result = <<>>

\* One record of self.metadata under its key: the hash, last_translated as
\* isoformat gives it, and the usage: "none" without the key, "empty" for {},
\* else the name of a usage (see usage_entries).
Item(file_path, hash, stamp, usage) ==
    [path |-> file_path, hash |-> hash, stamp |-> stamp, usage |-> usage]

NoItem == Item(<<>>, <<"sha256", 0>>, "", "none")

\* A thread that has not begun its file.
IdleCaller ==
    [pc |-> "idle", file |-> <<>>, content |-> 0, translated_metadata |-> "None",
     hash |-> <<"sha256", 0>>, seen |-> 0, count |-> 0, rec |-> NoItem, keys |-> 0,
     buffer |-> <<>>]

\* No thread is using a MetadataManager directly.
NoLedger ==
    /\ caller = [t \in 1..MaxWorkers |-> IdleCaller]
    /\ self_metadata = <<>>
    /\ ledger_file = <<>>

\* No run of the command is in progress and the tree is as first found.
NoRun ==
    /\ source = [f \in Files |-> 1]
    /\ unreadable = {}
    /\ blacklist_lines = {}
    /\ source_path = AbsoluteSource
    /\ metadata_json = EmptyLedger
    /\ last_metadata_json = EmptyLedger
    /\ pc = "idle"
    /\ exception = "none"
    /\ workers = 1
    /\ metadata_manager = EmptyLedger
    /\ last_metadata_manager = EmptyLedger
    /\ tasks = <<>>
    /\ future = <<>>
    /\ next_task = 1
    /\ thread = [t \in 1..MaxWorkers |-> 0]
    /\ collected = {}
    /\ success_count = 0
    /\ error_count = 0
    /\ runs = 0
    /\ modified = {}
    /\ tree_touched = FALSE
    /\ touches = 0
    /\ dispatched = <<>>

\* Lines 82-102: translate_text is entered.
InitText ==
    /\ NoRun
    /\ NoFile
    /\ NoLedger
    /\ response_mode \in {"streaming", "blocking"}
    /\ tpc = "send"
    /\ requests = <<>>
    /\ full_translation = <<>>
    /\ conversation_id = ""
    /\ cumulative_usage = ZeroUsage
    /\ current_translation = <<>>
    /\ chunk_count = 0
    /\ reached_token_limit = FALSE
    /\ metadata = <<>>
    /\ result = <<>>
    /\ line_in = NoLine
    /\ outputs = <<>>
    /\ reports = <<>>

\* Lines 242-245: whatever is raised inside the call leaves it as a
\* TranslationError; nothing is returned.
Raise ==
    /\ tpc' = "raised"
    /\ UNCHANGED <<response_mode, requests, full_translation, conversation_id,
                   cumulative_usage, current_translation, chunk_count,
                   reached_token_limit, metadata, result, outputs, reports>>

\* 'continue': the line leaves the call as it was.
Continue ==
    UNCHANGED <<response_mode, tpc, requests, full_translation, conversation_id,
                cumulative_usage, current_translation, chunk_count,
                reached_token_limit, metadata, result, outputs, reports>>

\* Lines 105-127: build the payload and post it.
Post(code) ==
    /\ tpc = "send"
    /\ line_in' = Status(code)
    /\ requests' = Append(requests,
                      [query |-> IF conversation_id = "" THEN "query" ELSE "continue",
                       conversation_id |-> conversation_id,
                       response_mode |-> response_mode])
    /\ IF code # 200
       THEN /\ tpc' = "raised"
            /\ UNCHANGED <<current_translation, reached_token_limit>>
       ELSE /\ tpc' = IF response_mode = "streaming" THEN "stream" ELSE "blocking"
            /\ current_translation' = <<>>
            /\ reached_token_limit' = FALSE
    /\ UNCHANGED <<response_mode, full_translation, conversation_id, cumulative_usage,
                   chunk_count, metadata, result, outputs, reports>>
    /\ UNCHANGED <<vars_tree, vars_run, vars_hist, vars_file, vars_ledger>>

\* Lines 201-240: the turn is over. Its text is merged into full_translation;
\* reading the local variable metadata while it is unbound raises
\* UnboundLocalError; a truncated turn loops, any other returns.
EndTurn(md, cumulative, limit, conversation, fragments, report) ==
    LET current_text == Join(fragments)
        full == Append(full_translation, resolve_overlap(full_translation, current_text))
    IN
    /\ outputs' = Append(outputs, current_text)
    /\ reports' = Append(reports, report)
    /\ metadata' = md
    /\ cumulative_usage' = cumulative
    /\ conversation_id' = conversation
    /\ reached_token_limit' = limit
    /\ current_translation' = fragments
    /\ full_translation' = full
    /\ IF md = <<>>
       THEN /\ tpc' = "raised"
            /\ UNCHANGED result
       ELSE IF limit
       THEN /\ tpc' = "send"
            /\ UNCHANGED result
       ELSE /\ tpc' = "returned"
            /\ result' = <<[text |-> Join(full),
                            metadata |-> last_metadata_of(md[1], cumulative)]>>
    /\ UNCHANGED <<response_mode, requests>>

\* Lines 130-180: one line of the stream.
ReadLine(line) ==
    /\ tpc = "stream"
    /\ line_in' = line
    /\ IF line.kind = "empty" /\ ~line.prefix
       THEN Continue
       ELSE LET parsed == json_loads(strip_prefix(line)) IN
            IF parsed = <<>>
            THEN Continue
            ELSE LET data == parsed[1] IN
                 IF "event" \in DOMAIN data /\ data.event = "message_end"
                 THEN LET has_usage == /\ "metadata" \in DOMAIN data
                                       /\ "usage" \in DOMAIN data.metadata
                          md == IF "metadata" \in DOMAIN data
                                THEN <<data.metadata>> ELSE metadata
                          limit == has_usage /\ at_token_limit(data.metadata.usage)
                          added == IF has_usage
                                   THEN accumulate(cumulative_usage, data.metadata.usage)
                                   ELSE cumulative_usage
                      IN  /\ EndTurn(md,
                                     IF limit
                                     THEN set_exceed_token_limit(added)
                                     ELSE added,
                                     limit,
                                     IF limit
                                     THEN (IF "conversation_id" \in DOMAIN data
                                           THEN data.conversation_id ELSE "")
                                     ELSE conversation_id,
                                     current_translation,
                                     IF has_usage THEN <<data.metadata.usage>> ELSE <<>>)
                          /\ UNCHANGED chunk_count
                 ELSE IF "answer" \in DOMAIN data
                 THEN /\ current_translation' = Append(current_translation, data.answer)
                      /\ chunk_count' = chunk_count + 1
                      /\ UNCHANGED <<response_mode, tpc, requests, full_translation,
                                     conversation_id, cumulative_usage,
                                     reached_token_limit, metadata, result, outputs,
                                     reports>>
                 ELSE IF "error" \in DOMAIN data
                 THEN Raise
                 ELSE Continue
    /\ UNCHANGED <<vars_tree, vars_run, vars_hist, vars_file, vars_ledger>>

\* The stream ends with no terminal record: the for loop is exhausted.
StreamEnd ==
    /\ tpc = "stream"
    /\ line_in' = EndOfStream
    /\ EndTurn(metadata, cumulative_usage, reached_token_limit, conversation_id,
               current_translation, <<>>)
    /\ UNCHANGED chunk_count
    /\ UNCHANGED <<vars_tree, vars_run, vars_hist, vars_file, vars_ledger>>

\* Lines 181-199 with the ceiling test of the streaming branch applied.
BlockingResponse_continuing(data) ==
    /\ tpc = "blocking"
    /\ line_in' = Payload(data)
    /\ IF "answer" \in DOMAIN data
       THEN LET has_usage == /\ "metadata" \in DOMAIN data
                             /\ "usage" \in DOMAIN data.metadata
            IN  /\ EndTurn(IF "metadata" \in DOMAIN data
                           THEN <<data.metadata>> ELSE metadata,
                           IF has_usage
                           THEN accumulate(cumulative_usage, data.metadata.usage)
                           ELSE cumulative_usage,
                           has_usage /\ at_token_limit(data.metadata.usage),
                           conversation_id,
                           Append(current_translation, data.answer),
                           IF has_usage THEN <<data.metadata.usage>> ELSE <<>>)
                /\ UNCHANGED chunk_count
       ELSE IF "error" \in DOMAIN data
       THEN Raise
       ELSE /\ EndTurn(metadata, cumulative_usage, reached_token_limit,
                       conversation_id, current_translation, <<>>)
            /\ UNCHANGED chunk_count
    /\ UNCHANGED <<vars_tree, vars_run, vars_hist, vars_file, vars_ledger>>

\* Lines 181-199: the single payload of blocking mode.
BlockingResponse(data) ==
    /\ tpc = "blocking"
    /\ line_in' = Payload(data)
    /\ IF "answer" \in DOMAIN data
       THEN LET has_usage == /\ "metadata" \in DOMAIN data
                             /\ "usage" \in DOMAIN data.metadata
            IN  /\ EndTurn(IF "metadata" \in DOMAIN data
                           THEN <<data.metadata>> ELSE metadata,
                           IF has_usage
                           THEN accumulate(cumulative_usage, data.metadata.usage)
                           ELSE cumulative_usage,
                           reached_token_limit, conversation_id,
                           Append(current_translation, data.answer),
                           IF has_usage THEN <<data.metadata.usage>> ELSE <<>>)
                /\ UNCHANGED chunk_count
       ELSE IF "error" \in DOMAIN data
       THEN Raise
       ELSE /\ EndTurn(metadata, cumulative_usage, reached_token_limit,
                       conversation_id, current_translation, <<>>)
            /\ UNCHANGED chunk_count
    /\ UNCHANGED <<vars_tree, vars_run, vars_hist, vars_file, vars_ledger>>

\* What the service may send next. It sends at most MaxChunks fragments over
\* the call and reports a truncated turn only while fewer than MaxTurns
\* requests were made; a truncated terminal record without a conversation_id
\* is sent in the first turn only.
ChunksNow == IF chunk_count < MaxChunks THEN Chunks ELSE {}

UsagesNow ==
    IF Len(requests) < MaxTurns THEN Usages ELSE {Usage(TokenCeiling - 1)}

TerminalRecords ==
    {MessageEnd(u) : u \in UsagesNow}
        \cup (IF Len(requests) = 1
              THEN {MessageEndNoConversation(u) :
                       u \in UsagesNow \cap {Usage(TokenCeiling)}}
              ELSE {})
        \cup {MessageEnd(UsageInconsistent),
              MessageEndError(Usage(TokenCeiling - 1)), MessageEndNoUsage,
              MessageEndNoMetadata}

StreamLines ==
    {BlankLine, NoiseLine(TRUE), NoiseLine(FALSE)}
        \cup {JsonLine(TRUE, Answer(c)) : c \in ChunksNow}
        \cup {JsonLine(TRUE, AnswerError(c)) : c \in ChunksNow \cap {<<"a">>}}
        \cup {JsonLine(FALSE, Answer(c)) : c \in ChunksNow \cap {<<"a">>}}
        \cup {JsonLine(TRUE, ErrorRecord), JsonLine(FALSE, ErrorRecord)}
        \cup {JsonLine(TRUE, d) : d \in TerminalRecords}
        \cup {JsonLine(FALSE, MessageEnd(Usage(TokenCeiling - 1)))}

BlockingPayloads ==
    {[answer |-> c, metadata |-> [usage |-> u]] : c \in Chunks, u \in Usages}
        \cup {[answer |-> c] : c \in Chunks}
        \cup {[answer |-> <<"a">>, error |-> "boom", metadata |-> [usage |-> u]] :
                 u \in Usages}
        \cup {[error |-> "boom"], [event |-> "ping"]}

NextText ==
    \/ \E code \in {200, 500} : Post(code)
    \/ \E line \in StreamLines : ReadLine(line)
    \/ StreamEnd
    \/ \E data \in BlockingPayloads : BlockingResponse(data)

SpecText == InitText /\ [][NextText]_vars

-----------------------------------------------------------------------------
(* DocumentTranslator.translate_file, called with a source and a target    *)
(* path. Making, opening or writing the target may fail.                   *)

\* What the target file holds when an earlier translation wrote it.
OldText == <<"o">>

\* None
None == [none |-> TRUE]

\* translate_file is entered.
InitFile ==
    /\ NoRun
    /\ NoLedger
    /\ response_mode \in {"streaming", "blocking"}
    /\ tpc = "open"
    /\ requests = <<>>
    /\ full_translation = <<>>
    /\ conversation_id = ""
    /\ cumulative_usage = ZeroUsage
    /\ current_translation = <<>>
    /\ chunk_count = 0
    /\ reached_token_limit = FALSE
    /\ metadata = <<>>
    /\ result = <<>>
    /\ line_in = NoLine
    /\ outputs = <<>>
    /\ reports = <<>>
    /\ target_file \in {<<>>, <<OldText>>}
    /\ target_before = target_file
    /\ file_result = <<>>

\* Lines 261-264: the source file is read and translate_text is called; a
\* source that cannot be opened or decoded raises inside the try block.
ReadSource(readable) ==
    /\ tpc = "open"
    /\ IF readable
       THEN /\ tpc' = "send"
            /\ UNCHANGED file_result
       ELSE /\ tpc' = "file_done"
            /\ file_result' = <<[success |-> FALSE, metadata |-> None]>>
    /\ UNCHANGED <<response_mode, requests, full_translation, conversation_id,
                   cumulative_usage, current_translation, chunk_count,
                   reached_token_limit, metadata, result, line_in, outputs, reports,
                   target_file, target_before>>
    /\ UNCHANGED <<vars_tree, vars_run, vars_hist, vars_ledger>>

\* Lines 270-277: translate_text returned. The directory is made and the
\* target opened for writing, which empties it; the text is written and
\* reaches the file when the with block closes it. When mkdir or open raises
\* the target is as it was. When the file system accepts fewer characters
\* than the text has (none for a text that cannot be encoded, some when the
\* disk fills up), write or close raises and the target holds what was
\* accepted. Every exception is caught at line 275 and (False, None) returned;
\* else (True, metadata) is returned.
\* Of translate_text's call nothing is left but what it returned.
WriteTarget(opened, accepted) ==
    LET text == result[1].text IN
    /\ tpc = "returned"
    /\ accepted \in 0..Len(text)
    /\ tpc' = "file_done"
    /\ target_file' = IF opened THEN <<SubSeq(text, 1, accepted)>> ELSE target_file
    /\ file_result' = IF opened /\ accepted = Len(text)
                      THEN <<[success |-> TRUE, metadata |-> result[1].metadata]>>
                      ELSE <<[success |-> FALSE, metadata |-> None]>>
    /\ requests' = <<>> /\ full_translation' = <<>> /\ conversation_id' = ""
    /\ cumulative_usage' = ZeroUsage /\ current_translation' = <<>> /\ chunk_count' = 0
    /\ reached_token_limit' = FALSE /\ metadata' = <<>> /\ line_in' = NoLine
    /\ outputs' = <<>> /\ reports' = <<>>
    /\ UNCHANGED <<response_mode, result, target_before>>
    /\ UNCHANGED <<vars_tree, vars_run, vars_hist, vars_ledger>>

\* Lines 275-277: translate_text raised; the exception is caught, printed,
\* and (False, None) returned.
CatchTranslationError ==
    /\ tpc = "raised"
    /\ tpc' = "file_done"
    /\ file_result' = <<[success |-> FALSE, metadata |-> None]>>
    /\ UNCHANGED <<response_mode, requests, full_translation, conversation_id,
                   cumulative_usage, current_translation, chunk_count,
                   reached_token_limit, metadata, result, line_in, outputs, reports,
                   target_file, target_before>>
    /\ UNCHANGED <<vars_tree, vars_run, vars_hist, vars_ledger>>

NextFile ==
    \/ \E readable \in BOOLEAN : ReadSource(readable)
    \/ NextText
    \/ \E opened \in BOOLEAN :
          \E accepted \in (IF result = <<>> THEN {} ELSE 0..Len(result[1].text)) :
              WriteTarget(opened, accepted)
    \/ CatchTranslationError

SpecFile == InitFile /\ [][NextFile]_vars

-----------------------------------------------------------------------------
(* One MetadataManager used by several threads, each doing for one file    *)
(* what process_file does on success: translate_file reads the source and  *)
(* returns True, then update_file_status records the file. The ledger file *)
(* is a sequence of atoms with their sizes in bytes, as json.dump with     *)
(* indent=2 writes them: braces, commas, white space, and for each record  *)
(* its key and its entries. A ledger is taken to fit the write buffer of   *)
(* the file object, so that its bytes reach the file when it is closed.    *)

Atom(kind, file_path, val, size) ==
    [kind |-> kind, path |-> file_path, val |-> val, size |-> size]

LBrace    == Atom("{", <<>>, <<"", 0>>, 1)
RBrace    == Atom("}", <<>>, <<"", 0>>, 1)
Comma     == Atom(",", <<>>, <<"", 0>>, 1)
Space(n)  == Atom("space", <<>>, <<"", 0>>, n)
Junk(n)   == Atom("junk", <<>>, <<"", 0>>, n)

\* The characters of a path
Chars(file_path) ==
    CASE file_path = F1 -> 6
      [] file_path = F2 -> 4
      [] file_path = F3 -> 4

\* datetime.now().isoformat(): the microseconds are left out when they are 0.
\* A record loaded from the file was stored before.
Clock       == {"2026-10-29T22:00:30", "2026-10-29T22:00:30.958792"}
LoadedStamp == "2026-10-28T09:15:02.104533"

\* The usage translate_text returns, each value as json.dump writes it: of a
\* translation, and of one that reached the token limit (translator.py 158
\* adds exceed_token_limit); "empty" is the {} stored when there is none
usage_entries(usage) ==
    CASE usage = "translation" ->
             <<<<"prompt_tokens", "1063">>, <<"completion_tokens", "512">>,
               <<"total_tokens", "1575">>, <<"prompt_price", "0.001063">>,
               <<"completion_price", "0.001024">>, <<"total_price", "0.002087">>,
               <<"currency", "\"USD\"">> >>
      [] usage = "exceeded" ->
             <<<<"prompt_tokens", "1063">>, <<"completion_tokens", "8192">>,
               <<"total_tokens", "9255">>, <<"prompt_price", "0.001063">>,
               <<"completion_price", "0.016384">>, <<"total_price", "0.017447">>,
               <<"currency", "\"USD\"">>, <<"exceed_token_limit", "true">> >>
      [] usage = "empty" -> <<>>

\* The bytes of the entries of a dict written at the third level: for each a
\* new line and 6 spaces, the key in quotes, ': ' and the value, with a comma
\* between two entries
RECURSIVE entries_bytes(_, _)
entries_bytes(entries, i) ==
    IF i > Len(entries) THEN 0
    ELSE (IF i > 1 THEN 1 ELSE 0) + 7 + (Len(entries[i][1]) + 2) + 2 + Len(entries[i][2])
             + entries_bytes(entries, i + 1)

\* The bytes of an entry of a record, the key in quotes, ': ' and the value:
\* the 64 digits of the hash in quotes, the time in quotes, and for usage {}
\* or the entries between braces, the closing one after a new line and 4 spaces
entry_bytes(key, val) ==
    (Len(key) + 2) + 2 +
    CASE key = "hash"            -> 64 + 2
      [] key = "last_translated" -> Len(val) + 2
      [] key = "usage"           -> IF usage_entries(val) = <<>> THEN 2
                                    ELSE 1 + entries_bytes(usage_entries(val), 1) + 5 + 1

\* "<path>": {
KeyAtom(item)   == Atom("key", item.path, <<"", 0>>, Chars(item.path) + 5)
HashAtom(item)  == Atom("hash", <<>>, item.hash, entry_bytes("hash", item.hash))
StampAtom(item) == Atom("last_translated", <<>>, <<item.stamp, 0>>,
                        entry_bytes("last_translated", item.stamp))
UsageAtom(item) == Atom("usage", <<>>, <<item.usage, 0>>,
                        entry_bytes("usage", item.usage))

\* The keys of a record, in the order the dict holds them
record_keys(item) ==
    IF item.usage = "none" THEN <<"hash", "last_translated">>
    ELSE <<"hash", "last_translated", "usage">>

EntryAtom(item, key) ==
    CASE key = "hash"            -> HashAtom(item)
      [] key = "last_translated" -> StampAtom(item)
      [] key = "usage"           -> UsageAtom(item)

\* What json.dump writes for the k-th entry of a record and, when the entries
\* are exhausted, for the end of the record
entry_chunks(item, k) ==
    (IF k > 1 THEN <<Comma, Space(5)>> ELSE <<>>)
        \o <<EntryAtom(item, record_keys(item)[k])>>

RECURSIVE entries_chunks(_, _)
entries_chunks(item, k) ==
    IF k > Len(record_keys(item)) THEN <<Space(3), RBrace>>
    ELSE entry_chunks(item, k) \o entries_chunks(item, k + 1)

\* What json.dump writes when the i-th item of the dict begins
key_chunks(item, i) ==
    (IF i > 1 THEN <<Comma, Space(3)>> ELSE <<>>) \o <<KeyAtom(item), Space(5)>>

\* json.dump(self.metadata, f, indent=2) run to its end
RECURSIVE items_chunks(_, _)
items_chunks(items, i) ==
    IF i > Len(items) THEN <<Space(1), RBrace>>
    ELSE key_chunks(items[i], i) \o entries_chunks(items[i], 1)
             \o items_chunks(items, i + 1)

json_dump(items) ==
    IF items = <<>> THEN <<LBrace, RBrace>>
    ELSE <<LBrace, Space(3)>> \o items_chunks(items, 1)

RECURSIVE Bytes(_)
Bytes(atoms) == IF atoms = <<>> THEN 0 ELSE Head(atoms).size + Bytes(Tail(atoms))

\* What is left of the old content beyond its first n bytes: an atom cut in
\* two leaves white space when it was white space, else bytes that are no JSON
RECURSIVE Beyond(_, _)
Beyond(old, n) ==
    IF old = <<>> \/ n = 0 THEN old
    ELSE LET h == Head(old) IN
         IF h.size <= n THEN Beyond(Tail(old), n - h.size)
         ELSE <<(IF h.kind = "space" THEN Space(h.size - n) ELSE Junk(h.size - n))>>
                  \o Tail(old)

\* The bytes written at offset 0 of a file that holds `old`: what lies beyond
\* the written bytes stays.
Overlay(written, old) == written \o Beyond(old, Bytes(written))

\* self.metadata[str(file_path)] = {...}: a new key goes last, a known key
\* keeps its place.
set_item(items, item) ==
    IF \E i \in 1..Len(items) : items[i].path = item.path
    THEN [i \in 1..Len(items) |-> IF items[i].path = item.path THEN item ELSE items[i]]
    ELSE Append(items, item)

get_item(items, file_path) ==
    items[CHOOSE i \in 1..Len(items) : items[i].path = file_path]

\* json.load: the bytes without their white space are {, the records with a
\* comma between them, }. <<>> stands for json.JSONDecodeError, else <<dict>>.
HasKinds(d, i, kinds) ==
    /\ i + Len(kinds) - 1 <= Len(d)
    /\ \A j \in 1..Len(kinds) : d[i + j - 1].kind = kinds[j]

ShortRecord == <<"key", "hash", ",", "last_translated", "}">>
LongRecord  == <<"key", "hash", ",", "last_translated", ",", "usage", "}">>

record_atoms(d, i) ==
    IF HasKinds(d, i, LongRecord) THEN Len(LongRecord)
    ELSE IF HasKinds(d, i, ShortRecord) THEN Len(ShortRecord)
    ELSE 0

record_at(d, i) ==
    Item(d[i].path, d[i + 1].val, d[i + 3].val[1],
         IF record_atoms(d, i) = Len(LongRecord) THEN d[i + 5].val[1] ELSE "none")

RECURSIVE parse_records(_, _, _)
parse_records(d, i, items) ==
    LET n == record_atoms(d, i) IN
    IF n = 0 \/ i + n > Len(d) THEN <<>>
    ELSE LET more == set_item(items, record_at(d, i)) IN
         IF d[i + n].kind = "}" THEN (IF i + n = Len(d) THEN <<more>> ELSE <<>>)
         ELSE IF d[i + n].kind = "," THEN parse_records(d, i + n + 1, more)
         ELSE <<>>

json_load(bytes) ==
    LET d == SelectSeq(bytes, LAMBDA a : a.kind # "space") IN
    IF Len(d) < 2 \/ d[1].kind # "{" THEN <<>>
    ELSE IF d[2].kind = "}" THEN (IF Len(d) = 2 THEN <<<<>>>> ELSE <<>>)
    ELSE parse_records(d, 2, <<>>)

is_json(bytes) == json_load(bytes) # <<>>

\* The dict as needs_translation reads it
as_ledger(items) ==
    [f \in {items[i].path : i \in 1..Len(items)} |-> [hash |-> get_item(items, f).hash]]

\* What process_file hands to update_file_status as translated_metadata:
\* nothing, {'translation_time': ...}, or the metadata with one of the usages
TranslatedMetadata == {"None", "time_only", "translation", "exceeded"}

\* The files the pool's threads are handed, each to one thread: one whose key
\* the ledger may hold already and one it does not, with keys of two lengths
FilesToProcess == {F1, F3}

InitLedger ==
    /\ NoRun
    /\ NoCall
    /\ NoFile
    /\ caller = [t \in 1..MaxWorkers |-> IdleCaller]
    /\ self_metadata \in {<<>>, <<Item(F3, Sha256(1), LoadedStamp, "empty")>>}
    /\ ledger_file = IF self_metadata = <<>> THEN <<>> ELSE json_dump(self_metadata)

vars_ledger_rest ==
    <<unreadable, blacklist_lines, source_path, metadata_json,
      last_metadata_json, vars_run, runs, modified, tree_touched, dispatched,
      vars_text, vars_file>>

\* The source may be edited while a thread is between reading it and storing
\* its record.
InProgress == {"translating", "hashed"}
Ended_ledger == {"done", "raised"}

\* translator.py 261-262: a thread begins a file nobody else has and reads it.
\* The translation succeeds and returns translated_metadata.
BeginFile(t, f, translated_metadata) ==
    /\ caller[t].pc = "idle"
    /\ \A u \in DOMAIN caller : caller[u].file # f
    /\ caller' = [caller EXCEPT ![t] =
                     [IdleCaller EXCEPT !.pc = "translating",
                                        !.file = f,
                                        !.content = source[f],
                                        !.translated_metadata = translated_metadata]]
    /\ UNCHANGED <<source, touches, self_metadata, ledger_file, vars_ledger_rest>>

\* Somebody edits a source file while a thread is translating or recording it.
EditDuringTranslation(f, bytes) ==
    /\ \E t \in DOMAIN caller : caller[t].pc \in InProgress /\ caller[t].file = f
    /\ touches < MaxTouches
    /\ bytes # source[f]
    /\ source' = [source EXCEPT ![f] = bytes]
    /\ touches' = touches + 1
    /\ UNCHANGED <<vars_ledger, vars_ledger_rest>>

\* metadata.py 82, 49-50: translate_file returned True; the file is read again
\* and hashed.
get_file_hash(t) ==
    /\ caller[t].pc = "translating"
    /\ caller' = [caller EXCEPT ![t].pc = "hashed",
                                ![t].hash = Sha256(source[caller[t].file])]
    /\ UNCHANGED <<source, touches, self_metadata, ledger_file, vars_ledger_rest>>

\* metadata.py 81-84: a new record, without usage, is stored under the key.
store_record(t, now) ==
    /\ caller[t].pc = "hashed"
    /\ self_metadata' = set_item(self_metadata,
                                 Item(caller[t].file, caller[t].hash, now, "none"))
    /\ caller' = [caller EXCEPT ![t].pc = "stored"]
    /\ UNCHANGED <<source, touches, ledger_file, vars_ledger_rest>>

\* metadata.py 86-87: 'usage' is added to the stored record when
\* translated_metadata is truthy: its usage, or {} when it has none.
store_usage(t) ==
    /\ caller[t].pc = "stored"
    /\ self_metadata' =
          IF caller[t].translated_metadata = "None" THEN self_metadata
          ELSE set_item(self_metadata,
                        [get_item(self_metadata, caller[t].file) EXCEPT !.usage =
                            IF caller[t].translated_metadata = "time_only"
                            THEN "empty" ELSE caller[t].translated_metadata])
    /\ caller' = [caller EXCEPT ![t].pc = "updated"]
    /\ UNCHANGED <<source, touches, ledger_file, vars_ledger_rest>>

\* metadata.py 31: open(self.metadata_file, 'w') empties the file.
save_open(t) ==
    /\ caller[t].pc = "updated"
    /\ ledger_file' = <<>>
    /\ caller' = [caller EXCEPT ![t].pc = "opened"]
    /\ UNCHANGED <<source, touches, self_metadata, vars_ledger_rest>>

\* metadata.py 32: json.dump writes the opening brace and begins to iterate
\* over the dict, which holds one record or more.
dump_begin(t) ==
    /\ caller[t].pc = "opened"
    /\ caller' = [caller EXCEPT ![t].pc = "iterating",
                                ![t].seen = Len(self_metadata),
                                ![t].count = 0,
                                ![t].buffer = <<LBrace, Space(3)>>]
    /\ UNCHANGED <<source, touches, self_metadata, ledger_file, vars_ledger_rest>>

\* RuntimeError (dictionary changed size during iteration): leaving the with
\* block closes the file with what was written so far.
raise_RuntimeError(t) ==
    /\ caller' = [caller EXCEPT ![t].pc = "raised"]
    /\ ledger_file' = Overlay(caller[t].buffer, ledger_file)

\* metadata.py 32: the iterator of the dict is asked for the next item. It
\* raises when the dict has changed size; else the item is fetched, its key
\* and the opening of its record are written, or the dump ends.
dump_next(t) ==
    /\ caller[t].pc = "iterating"
    /\ IF Len(self_metadata) # caller[t].seen
       THEN raise_RuntimeError(t)
       ELSE IF caller[t].count < caller[t].seen
       THEN LET i == caller[t].count + 1 IN
            /\ caller' = [caller EXCEPT ![t].pc = "at_record",
                                        ![t].count = i,
                                        ![t].rec = self_metadata[i],
                                        ![t].keys = 0,
                                        ![t].buffer = @ \o key_chunks(self_metadata[i], i)]
            /\ UNCHANGED ledger_file
       ELSE /\ caller' = [caller EXCEPT ![t].pc = "encoded",
                                        ![t].buffer = @ \o <<Space(1), RBrace>>]
            /\ UNCHANGED ledger_file
    /\ UNCHANGED <<source, touches, self_metadata, vars_ledger_rest>>

\* metadata.py 32: the encoder begins to iterate over the record it fetched,
\* with the entries the record has by now: a 'usage' added since the item was
\* fetched is among them (a record stored anew under the key is another
\* dict, and the one fetched is as it was).
record_begin(t) ==
    /\ caller[t].pc = "at_record"
    /\ LET rec  == caller[t].rec
           live == get_item(self_metadata, rec.path)
       IN  caller' = [caller EXCEPT ![t].pc = "in_record",
                                    ![t].rec = IF live.stamp = rec.stamp THEN live ELSE rec]
    /\ UNCHANGED <<source, touches, self_metadata, ledger_file, vars_ledger_rest>>

\* metadata.py 32: the iterator of the record is asked for the next entry. It
\* raises when this record has gained its 'usage' since the iteration began
\* (a record stored anew under the key is another dict); else the entry is
\* written, or the record ends.
record_next(t) ==
    /\ caller[t].pc = "in_record"
    /\ LET rec  == caller[t].rec
           live == get_item(self_metadata, rec.path)
       IN  IF live.stamp = rec.stamp /\ live.usage # rec.usage
           THEN raise_RuntimeError(t)
           ELSE IF caller[t].keys < Len(record_keys(rec))
           THEN /\ caller' = [caller EXCEPT ![t].keys = @ + 1,
                                 ![t].buffer = @ \o entry_chunks(rec, caller[t].keys + 1)]
                /\ UNCHANGED ledger_file
           ELSE /\ caller' = [caller EXCEPT ![t].pc = "iterating",
                                            ![t].buffer = @ \o <<Space(3), RBrace>>]
                /\ UNCHANGED ledger_file
    /\ UNCHANGED <<source, touches, self_metadata, vars_ledger_rest>>

\* metadata.py 31-32: leaving the with block closes the file, which writes
\* the buffer at the start of the file.
save_close(t) ==
    /\ caller[t].pc = "encoded"
    /\ ledger_file' = Overlay(caller[t].buffer, ledger_file)
    /\ caller' = [caller EXCEPT ![t].pc = "done"]
    /\ UNCHANGED <<source, touches, self_metadata, vars_ledger_rest>>

\* metadata.py 29-32
save_metadata(t) ==
    \/ save_open(t)
    \/ dump_begin(t)
    \/ dump_next(t)
    \/ record_begin(t)
    \/ record_next(t)
    \/ save_close(t)

\* metadata.py 79-90
update_file_status(t) ==
    \/ get_file_hash(t)
    \/ \E now \in Clock : store_record(t, now)
    \/ store_usage(t)
    \/ save_metadata(t)

NextLedger ==
    \/ \E t \in 1..MaxWorkers, f \in FilesToProcess, md \in TranslatedMetadata :
           BeginFile(t, f, md)
    \/ \E f \in FilesToProcess, bytes \in Contents : EditDuringTranslation(f, bytes)
    \/ \E t \in 1..MaxWorkers : update_file_status(t)

SpecLedger == InitLedger /\ [][NextLedger]_vars

-----------------------------------------------------------------------------
(* The command line run.                                                   *)

NotRunning == {"idle", "completed", "crashed", "aborted"}
Done       == {"true", "false", "raised"}

FreshProcess ==
    /\ exception = "none"
    /\ workers = 1
    /\ metadata_manager = EmptyLedger
    /\ last_metadata_manager = EmptyLedger
    /\ tasks = <<>>
    /\ future = <<>>
    /\ next_task = 1
    /\ thread = [t \in 1..MaxWorkers |-> 0]
    /\ collected = {}
    /\ success_count = 0
    /\ error_count = 0

Init ==
    /\ source = [f \in Files |-> 1]
    /\ unreadable = {}
    /\ \E p \in {<<{<<"d", "/">>}, AbsoluteSource>>,
                 <<{<<"d", "/">>}, RelativeSource>>,
                 <<{F3, <<"d">>}, DotSource>>,
                 <<{F3, <<"d">>}, ParentSource>>} :
          /\ blacklist_lines = p[1]
          /\ source_path = p[2]
    /\ \E recorded \in {{}, {F1}, {F1, F2, F3}} :
          /\ metadata_json = [f \in recorded |-> [hash |-> Sha256(1)]]
          /\ last_metadata_json = [f \in recorded |-> [hash |-> Sha256(1)]]
    /\ pc = "idle"
    /\ FreshProcess
    /\ runs = 0
    /\ modified = {}
    /\ tree_touched = FALSE
    /\ touches = 0
    /\ dispatched = <<>>
    /\ NoCall
    /\ NoFile
    /\ NoLedger

\* The process has exited: nothing of it is left but the files.
ProcessGone ==
    /\ pc' = "idle"
    /\ exception' = "none"
    /\ workers' = 1
    /\ metadata_manager' = EmptyLedger
    /\ last_metadata_manager' = EmptyLedger
    /\ tasks' = <<>>
    /\ future' = <<>>
    /\ next_task' = 1
    /\ thread' = [t \in 1..MaxWorkers |-> 0]
    /\ collected' = {}
    /\ success_count' = 0
    /\ error_count' = 0
    /\ dispatched' = <<>>

\* Between two runs somebody edits a source file.
EditFile(f, bytes) ==
    /\ pc \in NotRunning
    /\ runs < MaxRuns
    /\ touches < MaxTouches
    /\ touches' = touches + 1
    /\ source[f] # bytes
    /\ source' = [source EXCEPT ![f] = bytes]
    /\ modified' = (IF pc = "idle" THEN modified ELSE {}) \cup {f}
    /\ tree_touched' = TRUE
    /\ ProcessGone
    /\ UNCHANGED <<vars_text, vars_file, vars_ledger, unreadable, blacklist_lines, source_path, metadata_json,
                   last_metadata_json, runs>>

\* Between two runs a source file becomes unreadable, or readable again.
Chmod(f) ==
    /\ pc \in NotRunning
    /\ runs < MaxRuns
    /\ touches < MaxTouches
    /\ touches' = touches + 1
    /\ unreadable' = IF f \in unreadable THEN unreadable \ {f} ELSE unreadable \cup {f}
    /\ modified' = (IF pc = "idle" THEN modified ELSE {})
    /\ tree_touched' = TRUE
    /\ ProcessGone
    /\ UNCHANGED <<vars_text, vars_file, vars_ledger, source, blacklist_lines, source_path, metadata_json,
                   last_metadata_json, runs>>

\* cli.translate, lines 32-72 and 104-137: load the blacklist and the two
\* ledgers, select the files, clear the per-run ledger, open the pool and
\* build the tasks. needs_translation hashes every file that survives the
\* blacklist; an unreadable one raises out of translate() at line 63, before
\* line 72 clears the per-run ledger.
StartRun(w, order) ==
    LET blacklist == load_blacklist(blacklist_lines, source_path)
        files_to_translate ==
            {f \in get_translatable_files(Tree) : ~is_blacklisted(f, blacklist)}
        loaded == metadata_json
        selected ==
            {f \in files_to_translate : needs_translation(loaded, f, source[f])}
    IN
    /\ pc \in NotRunning
    /\ runs < MaxRuns
    /\ runs' = runs + 1
    /\ modified' = (IF pc = "idle" THEN modified ELSE {})
    /\ tree_touched' = (pc = "idle" /\ tree_touched)
    /\ workers' = w
    /\ metadata_manager' = loaded
    /\ next_task' = 1
    /\ thread' = [t \in 1..MaxWorkers |-> 0]
    /\ collected' = {}
    /\ success_count' = 0
    /\ error_count' = 0
    /\ IF files_to_translate \cap unreadable # {}
       THEN /\ pc' = "aborted"
            /\ exception' = "PermissionError"
            /\ order = <<>>
            /\ last_metadata_manager' = last_metadata_json
            /\ tasks' = <<>>
            /\ dispatched' = <<>>
            /\ future' = <<>>
            /\ UNCHANGED last_metadata_json
       ELSE /\ pc' = "running"
            /\ exception' = "none"
            /\ order \in Orders(selected)
            /\ last_metadata_manager' = clear_metadata(last_metadata_json)
            /\ last_metadata_json' = clear_metadata(last_metadata_json)
            /\ tasks' = assign_workers(order, w)
            /\ dispatched' = assign_workers(order, w)
            /\ future' = [i \in 1..Len(order) |-> "unsubmitted"]
    /\ UNCHANGED <<vars_text, vars_file, vars_ledger, source, unreadable, blacklist_lines, source_path,
                   metadata_json, touches>>

\* Lines 139-142: the main thread submits the tasks in their order, one at a
\* time, while the pool's threads are already at work on those submitted.
Submit(i) ==
    /\ pc = "running"
    /\ i \in 1..Len(tasks)
    /\ future[i] = "unsubmitted"
    /\ \A j \in 1..(i - 1) : future[j] # "unsubmitted"
    /\ future' = [future EXCEPT ![i] = "pending"]
    /\ UNCHANGED <<vars_text, vars_file, vars_ledger, vars_tree, vars_hist, pc, exception, workers, metadata_manager,
                   last_metadata_manager, tasks, next_task, thread, collected,
                   success_count, error_count>>

\* A pool thread takes the next work item off the executor's queue and enters
\* process_file (cli.py lines 76-81). The executor hands the items out in
\* submission order to whichever thread asks; shutdown(wait=True) lets the
\* threads drain the queue. The pool's threads are interchangeable, so the idle
\* thread of lowest index stands for whichever idle thread takes the item.
TakeTask(t) ==
    /\ pc \in {"running", "draining"}
    /\ t \in 1..workers
    /\ thread[t] = 0
    /\ \A u \in 1..(t - 1) : thread[u] # 0
    /\ next_task <= Len(tasks)
    /\ future[next_task] = "pending"
    /\ thread' = [thread EXCEPT ![t] = next_task]
    /\ future' = [future EXCEPT ![next_task] = "running"]
    /\ next_task' = next_task + 1
    /\ UNCHANGED <<vars_text, vars_file, vars_ledger, vars_tree, vars_hist, pc, exception, workers, metadata_manager,
                   last_metadata_manager, tasks, collected, success_count,
                   error_count>>

\* {} and the truth value Python gives a returned metadata: None and the
\* empty dict are false.
EmptyDict == [k \in {} |-> 0]

Truthy(md) == md # None /\ DOMAIN md # {}

\* metadata.py 79-90, update_file_status(file_path, True, translated_metadata)
\* by one thread: the record is stored with the hash of the file as it is
\* now; a translated_metadata that is true adds its usage, {} when it has
\* none. The ledger is then saved.
file_status(ledger, file_path, bytes, translated_metadata) ==
    LET record == IF Truthy(translated_metadata)
                  THEN [hash  |-> Sha256(bytes),
                        usage |-> IF "usage" \in DOMAIN translated_metadata
                                  THEN translated_metadata.usage ELSE EmptyDict]
                  ELSE [hash |-> Sha256(bytes)]
    IN  [f \in DOMAIN ledger \cup {file_path} |->
            IF f = file_path THEN record ELSE ledger[f]]

\* process_file, lines 92-100: translate_file returned (success,
\* translated_metadata). On success the long-lived ledger records the file
\* with the translation time alone, when the metadata has one, and the per-run
\* ledger records it with the metadata; each is saved. The value returned is
\* left in the future.
after_translate_file(file_path, success, translated_metadata, returned) ==
    /\ future' = returned
    /\ IF success
       THEN /\ metadata_manager' =
                  file_status(metadata_manager, file_path, source[file_path],
                      IF Truthy(translated_metadata)
                            /\ "translation_time" \in DOMAIN translated_metadata
                      THEN [translation_time |-> translated_metadata.translation_time]
                      ELSE None)
            /\ last_metadata_manager' =
                  file_status(last_metadata_manager, file_path, source[file_path],
                              translated_metadata)
            /\ metadata_json' = metadata_manager'
            /\ last_metadata_json' = last_metadata_manager'
       ELSE UNCHANGED <<metadata_manager, last_metadata_manager, metadata_json,
                        last_metadata_json>>

\* process_file from line 83 on. translator.translate_file is called: a call
\* that binds enters translate_file, which is then in progress under the
\* task's worker id as its position, and lines 92-100 follow its return. This
\* call names current_file and total_files, which translate_file does not
\* declare, so it raises TypeError before translate_file's body runs; the
\* exception leaves process_file and is stored in the future.
process_file(t) ==
    /\ pc \in {"running", "draining"}
    /\ t \in 1..workers
    /\ thread[t] # 0
    /\ IF future[thread[t]] = "translating"
       THEN /\ \E success, with_usage \in BOOLEAN :
                  after_translate_file(
                      tasks[thread[t]].file, success,
                      IF ~success THEN None
                      ELSE IF with_usage
                      THEN [usage |-> ZeroUsage, translation_time |-> "seconds"]
                      ELSE EmptyDict,
                      [future EXCEPT ![thread[t]] = IF success THEN "true" ELSE "false"])
            /\ thread' = [thread EXCEPT ![t] = 0]
       ELSE IF CallBinds(ProcessFileKeywords, TranslateFileParameters)
       THEN /\ future' = [future EXCEPT ![thread[t]] = "translating"]
            /\ UNCHANGED <<thread, metadata_manager, last_metadata_manager,
                           metadata_json, last_metadata_json>>
       ELSE /\ future' = [future EXCEPT ![thread[t]] = "raised"]
            /\ thread' = [thread EXCEPT ![t] = 0]
            /\ UNCHANGED <<metadata_manager, last_metadata_manager,
                           metadata_json, last_metadata_json>>
    /\ UNCHANGED <<vars_text, vars_file, vars_ledger, source, unreadable,
                   blacklist_lines, source_path, vars_hist, pc, exception, workers,
                   tasks, next_task, collected, success_count, error_count>>

\* The as_completed loop, lines 145-151, entered when every task has been
\* submitted: future.result() re-raises the exception of a future that
\* raised, which leaves the with block; the executor's shutdown then waits for
\* the queue to drain.
Collect(i) ==
    /\ pc = "running"
    /\ i \in 1..Len(tasks)
    /\ \A j \in 1..Len(tasks) : future[j] # "unsubmitted"
    /\ i \notin collected
    /\ future[i] \in Done
    /\ collected' = collected \cup {i}
    /\ IF future[i] = "raised"
       THEN /\ pc' = "draining"
            /\ exception' = "TypeError"
            /\ UNCHANGED <<success_count, error_count>>
       ELSE /\ success_count' = success_count + (IF future[i] = "true" THEN 1 ELSE 0)
            /\ error_count' = error_count + (IF future[i] = "false" THEN 1 ELSE 0)
            /\ UNCHANGED <<pc, exception>>
    /\ UNCHANGED <<vars_text, vars_file, vars_ledger, vars_tree, vars_hist, workers, metadata_manager,
                   last_metadata_manager, tasks, future, next_task, thread>>

\* Lines 153-159: every future was collected; the summary is printed.
Summary ==
    /\ pc = "running"
    /\ collected = 1..Len(tasks)
    /\ pc' = "completed"
    /\ UNCHANGED <<vars_text, vars_file, vars_ledger, vars_tree, vars_hist, exception, workers, metadata_manager,
                   last_metadata_manager, tasks, future, next_task, thread,
                   collected, success_count, error_count>>

\* The executor has shut down: the exception leaves translate().
Crash ==
    /\ pc = "draining"
    /\ \A i \in 1..Len(tasks) : future[i] \in Done
    /\ pc' = "crashed"
    /\ UNCHANGED <<vars_text, vars_file, vars_ledger, vars_tree, vars_hist, exception, workers, metadata_manager,
                   last_metadata_manager, tasks, future, next_task, thread,
                   collected, success_count, error_count>>

Next ==
    \/ \E f \in Files, bytes \in Contents : EditFile(f, bytes)
    \/ \E f \in Files : Chmod(f)
    \/ \E w \in 1..MaxWorkers, order \in UNION {Orders(S) : S \in SUBSET Files} :
          StartRun(w, order)
    \/ \E i \in 1..Cardinality(Files) : Submit(i)
    \/ \E t \in 1..MaxWorkers : TakeTask(t)
    \/ \E t \in 1..MaxWorkers : process_file(t)
    \/ \E i \in 1..Cardinality(Files) : Collect(i)
    \/ Summary
    \/ Crash

Spec == Init /\ [][Next]_vars

-----------------------------------------------------------------------------
(* What process_file does with the result of translate_file: one           *)
(* translate_file call, as a caller that binds it makes it, and lines      *)
(* 92-100 on what it returned.                                             *)

\* The file translate_file was called for.
ProcessedFile == F3

\* Lines 92-100 on the result of the translate_file call.
ProcessResult ==
    /\ tpc = "file_done"
    /\ future = <<>>
    /\ after_translate_file(ProcessedFile, file_result[1].success,
                            file_result[1].metadata,
                            <<IF file_result[1].success THEN "true" ELSE "false">>)
    /\ UNCHANGED <<vars_text, vars_file, vars_ledger, source, unreadable,
                   blacklist_lines, source_path, vars_hist, pc, exception, workers,
                   tasks, next_task, thread, collected, success_count, error_count>>

NextProcess ==
    \/ NextFile
    \/ ProcessResult

SpecProcess == InitFile /\ [][NextProcess]_vars

\* C13: after a successful file translation both ledgers hold a record of the
\* file, and the usage stored in each, the long-lived one like the per-run
\* one, is the cumulative usage translate_file returned for the call.
C13_UsageStoredInBothLedgers ==
    (future = <<"true">> /\ "usage" \in DOMAIN file_result[1].metadata) =>
        /\ ProcessedFile \in DOMAIN metadata_manager
        /\ ProcessedFile \in DOMAIN last_metadata_manager
        /\ "usage" \in DOMAIN metadata_manager[ProcessedFile]
        /\ "usage" \in DOMAIN last_metadata_manager[ProcessedFile]
        /\ metadata_manager[ProcessedFile].usage = file_result[1].metadata.usage
        /\ last_metadata_manager[ProcessedFile].usage = file_result[1].metadata.usage

-----------------------------------------------------------------------------
(* Properties of the command line run.                                     *)

InRun == {"running", "draining", "completed", "crashed"}
Ended == {"completed", "crashed", "aborted"}

\* The files the run dispatched, and those that survive the blacklist.
TaskFiles == {tasks[i].file : i \in 1..Len(tasks)}

Candidates ==
    {f \in get_translatable_files(Tree) :
        ~is_blacklisted(f, load_blacklist(blacklist_lines, source_path))}

Failed == {i \in 1..Len(tasks) : future[i] \in {"raised", "false"}}

Succeeded(f) == \E i \in 1..Len(tasks) : tasks[i].file = f /\ future[i] = "true"

\* C1: a run that follows another run over the same tree, with no source
\* file changed in between, dispatches no file for translation.
C1_SecondRunDispatchesNothing ==
    (runs >= 2 /\ pc \in InRun /\ ~tree_touched) => tasks = <<>>

\* C2: a file that survives the blacklist is selected for translation exactly
\* when the ledger holds no record for it or the recorded hash differs from
\* the hash of its current bytes; so an edited file whose record holds the
\* hash of the old bytes is selected, and a file whose record holds the hash
\* of its bytes is not.
C2_SelectedIffNoRecordOrHashDiffers ==
    pc \in InRun =>
        \A f \in Candidates :
            f \in TaskFiles <=>
                \/ f \notin DOMAIN metadata_manager
                \/ metadata_manager[f].hash # Sha256(source[f])

\* C2, witness: in a second run, a recorded file edited since the first run is
\* selected and a recorded file that was not edited is not.
C2_Witness ==
    /\ runs = 2
    /\ pc = "running"
    /\ \E f \in modified \cap DOMAIN metadata_manager : f \in TaskFiles
    /\ \E g \in (Candidates \cap DOMAIN metadata_manager) \ modified : g \notin TaskFiles

\* C3: the failure of one file's translation does not abort the run: the run
\* goes on to its summary, the failing file is counted as a failure and every
\* other dispatched file is translated and recorded.
C3_FailureDoesNotAbortRun ==
    Failed # {} =>
        /\ pc \notin {"draining", "crashed"}
        /\ pc = "completed" =>
              /\ error_count = Cardinality(Failed)
              /\ \A i \in 1..Len(tasks) :
                    i \notin Failed => tasks[i].file \in DOMAIN metadata_manager

\* The tasks whose translate_file call is in progress under a position.
InTranslateFile(position) ==
    {i \in 1..Len(tasks) : future[i] = "translating" /\ tasks[i].worker_id = position}

C7_RecordIffTranslated ==
    pc \in InRun =>
        \A f \in Files :
            /\ f \in DOMAIN last_metadata_manager <=> Succeeded(f)
            /\ f \in DOMAIN last_metadata_json <=> Succeeded(f)
            /\ f \in DOMAIN metadata_manager <=>
                  (f \in DOMAIN metadata_json \/ Succeeded(f))
            /\ ~Succeeded(f) =>
                  (f \in DOMAIN metadata_manager =>
                      metadata_manager[f] = metadata_json[f])

\* C7, witness: the per-run ledger held records before the run, the run
\* cleared it, a file's translation failed and the file has no record.
C7_Witness ==
    /\ pc = "crashed"
    /\ runs = 1
    /\ metadata_json # EmptyLedger
    /\ \E i \in Failed :
          /\ tasks[i].file \notin DOMAIN last_metadata_manager
          /\ tasks[i].file \notin DOMAIN metadata_manager

\* C8: an unreadable source file fails only that file: the run ends with its
\* summary and the file is counted as a failure.
C8_UnreadableFailsOnlyThatFile ==
    (pc \in Ended /\ Candidates \cap unreadable # {}) =>
        /\ pc = "completed"
        /\ error_count >= Cardinality(Candidates \cap unreadable)

\* ---------------------------------------------------------------------------
\* Claims about one translate_text call, checked under SpecText.

\* The state of the call other than the input last consumed.
vars_call == <<response_mode, tpc, requests, full_translation, conversation_id,
               cumulative_usage, current_translation, chunk_count,
               reached_token_limit, metadata, result, outputs, reports>>

\* Every turn of the call ended with a usage report.
EveryTurnReported ==
    /\ reports # <<>>
    /\ \A k \in 1..Len(reports) : reports[k] # <<>>

RECURSIVE SumReportedTotals(_)
SumReportedTotals(rs) ==
    IF rs = <<>> THEN 0 ELSE Head(rs)[1].total_tokens + SumReportedTotals(Tail(rs))

RECURSIVE SumReportedTokens(_)
SumReportedTokens(rs) ==
    IF rs = <<>> THEN 0
    ELSE Head(rs)[1].prompt_tokens + Head(rs)[1].completion_tokens
         + SumReportedTokens(Tail(rs))

\* C5 as stated: when every turn reports its usage, the call returns after
\* the first turn that reports below the ceiling, having issued one request
\* per turn, and the total it returns is the sum of the reported totals.
C5_Original ==
    (tpc = "returned" /\ EveryTurnReported) =>
        /\ \A k \in 1..(Len(reports) - 1) :
              reports[k][1].completion_tokens >= TokenCeiling
        /\ reports[Len(reports)][1].completion_tokens < TokenCeiling
        /\ Len(requests) = Len(reports)
        /\ result[1].metadata.usage.total_tokens = SumReportedTotals(reports)

\* C5, amended: in streaming response mode, when every turn reports its
\* usage, the call returns after the first turn that reports below the
\* ceiling, having issued one request per turn, and the total_tokens it
\* returns is the sum of the prompt and completion tokens those turns reported.
C5_StreamingContinuesUntilBelowCeiling ==
    (response_mode = "streaming" /\ tpc = "returned" /\ EveryTurnReported) =>
        /\ \A k \in 1..(Len(reports) - 1) :
              reports[k][1].completion_tokens >= TokenCeiling
        /\ reports[Len(reports)][1].completion_tokens < TokenCeiling
        /\ Len(requests) = Len(reports)
        /\ result[1].metadata.usage.total_tokens = SumReportedTokens(reports)

\* C5, witness: a streaming call returned after two truncated turns and a
\* third below the ceiling.
C5_Witness ==
    /\ response_mode = "streaming"
    /\ tpc = "returned"
    /\ EveryTurnReported
    /\ Len(requests) = 3
    /\ reports[1][1].completion_tokens = TokenCeiling
    /\ reports[2][1].completion_tokens = TokenCeiling

\* The longest suffix of prev that is a prefix of next.
Overlap(prev, next) ==
    LET lens == {n \in 0..Len(prev) : StartsWith(next, LastChars(prev, n))}
    IN  LastChars(prev, CHOOSE n \in lens : \A m \in lens : m <= n)

\* C6 as stated: when the first turn's output ends with a string S and the
\* second turn's output begins with S, the second turn contributes exactly
\* what comes after S.
C6_Original ==
    Len(outputs) >= 2 =>
        LET S == Overlap(outputs[1], outputs[2])
        IN  full_translation[2] = DropChars(outputs[2], Len(S))

\* C6, amended: when a continuation turn's output begins with the final 100
\* characters of the text the previous turn appended (all of that text when
\* it is shorter), the turn appends exactly what comes after them, so the
\* merged text contains them once.
C6_KeyPrefixRemovedOnce ==
    \A k \in 2..Len(outputs) :
        LET S == LastChars(full_translation[k - 1], OverlapWindow)
        IN  StartsWith(outputs[k], S) =>
                full_translation[k] = DropChars(outputs[k], Len(S))

\* C6, witness: the previous turn appended more than 100 characters, the
\* continuation began with the last 100 of them and went on.
C6_Witness ==
    /\ tpc = "returned"
    /\ Len(outputs) = 2
    /\ Len(full_translation[1]) > OverlapWindow
    /\ StartsWith(outputs[2], LastChars(full_translation[1], OverlapWindow))
    /\ Len(outputs[2]) > OverlapWindow
    /\ Len(result[1].text) = Len(outputs[1]) + Len(outputs[2]) - OverlapWindow

\* The record or payload last consumed carries an error indication.
CarriesError ==
    \/ line_in.kind = "json" /\ "error" \in DOMAIN line_in.data
    \/ line_in.kind = "payload" /\ "error" \in DOMAIN line_in.data

\* C9: a stream record or blocking payload that carries an error indication
\* makes the call fail, and no text is returned.
C9_ErrorRecordFailsCall ==
    CarriesError => (tpc = "raised" /\ result = <<>>)

\* The step read a line of the stream.
ReadsLine == tpc = "stream" /\ line_in'.kind \in {"empty", "noise", "json"}

\* C10 as stated: a line that is not valid JSON or that lacks the 'data: '
\* prefix leaves the call as it was.
C10_Original ==
    [][(ReadsLine /\ (line_in'.kind # "json" \/ ~line_in'.prefix))
          => UNCHANGED vars_call]_vars

\* C10, amended: a line that is not valid JSON once a leading 'data: ' is
\* removed is skipped: it leaves the fragments, the usage and the state of
\* the call as they were and the call goes on. A line of valid JSON is
\* processed whether or not it has the prefix.
C10_NonJsonLineSkipped ==
    [][(ReadsLine /\ line_in'.kind # "json") => UNCHANGED vars_call]_vars

\* C10, witness: a line that is not JSON was read after a fragment and the
\* call is still reading the stream with that fragment.
C10_Witness ==
    /\ tpc = "stream"
    /\ line_in.kind = "noise"
    /\ current_translation # <<>>

\* ---------------------------------------------------------------------------
\* Claims about one translate_file call, checked under SpecFile.

\* C11: an exchange that completes without any translated text is a failure:
\* translate_file reports failure and the target file is not written.
C11_EmptyTranslationIsFailure ==
    (tpc = "file_done" /\ result # <<>> /\ result[1].text = <<>>) =>
        /\ ~file_result[1].success
        /\ target_file = target_before

\* C12: when the translation of a file fails, at whichever turn, the target
\* file is as it was before the call, absent or holding its previous text,
\* and no ledger, in memory or on disk, has gained or changed a record.
C12_FailureLeavesTargetAndLedgers ==
    (tpc = "file_done" /\ ~file_result[1].success) =>
        /\ target_file = target_before
        /\ metadata_json = EmptyLedger /\ last_metadata_json = EmptyLedger
        /\ metadata_manager = EmptyLedger /\ last_metadata_manager = EmptyLedger

\* ---------------------------------------------------------------------------
\* Further claims about the command line run, checked under Spec.

\* C14: a file is dispatched only if its relative path matches no pattern of
\* the source tree's blacklist file and needs_translation is true for it.
C14_DispatchedOnlyIfNotBlacklisted ==
    pc \in InRun =>
        \A f \in TaskFiles :
            /\ ~is_blacklisted(f, blacklist_lines)
            /\ needs_translation(metadata_manager, f, source[f])

\* C15: the per-run ledger is emptied at the start of every run; when the run
\* has ended its keys are the files translated successfully in this run, and
\* each is in the long-lived ledger with the same hash.
C15_PerRunLedgerIsThisRun ==
    pc \in Ended =>
        /\ DOMAIN last_metadata_json = {f \in Files : Succeeded(f)}
        /\ \A f \in DOMAIN last_metadata_json :
              /\ f \in DOMAIN metadata_json
              /\ metadata_json[f].hash = last_metadata_json[f].hash

\* C19: of two files with the same worker id, the translation of the one
\* earlier in the task list begins before that of the later one: when
\* translate_file has been called for the later, it has been for the earlier.
C19_SameWorkerFilesBeginInOrder ==
    \A i, j \in 1..Len(tasks) :
        (i < j /\ tasks[i].worker_id = tasks[j].worker_id /\ future[j] \in Done)
            => future[i] \in Done

\* The task list of a run is a round-robin assignment of the eligible files.
RoundRobin ==
    LET eligible == {f \in Candidates :
                        needs_translation(metadata_manager, f, source[f])}
        groups == worker_tasks(tasks)
        count(id) == IF id \in DOMAIN groups THEN Len(groups[id]) ELSE 0
    IN  /\ \A i \in 1..Len(tasks) : tasks[i].worker_id = (i - 1) % workers
        /\ TaskFiles = eligible
        /\ Len(tasks) = Cardinality(eligible)
        /\ \A i \in 1..Len(tasks) :
              \E k \in 1..Len(groups[tasks[i].worker_id]) :
                  groups[tasks[i].worker_id][k] = tasks[i].file
        /\ \A id \in DOMAIN groups : \A k \in 1..Len(groups[id]) :
              \E i \in 1..Len(tasks) :
                  tasks[i].file = groups[id][k] /\ tasks[i].worker_id = id
        /\ \A a, b \in 0..(workers - 1) :
              count(a) - count(b) <= 1 /\ count(b) - count(a) <= 1

\* C20: the eligible file at index i of the dispatch list has worker id
\* i mod worker_count; every eligible file has exactly one worker id, which
\* does not change during the run; every file is in the task list of its
\* worker id; the per-worker file counts differ by at most one.
C20_RoundRobinFixedForRun ==
    pc \in InRun => (RoundRobin /\ tasks = dispatched)

\* C20, witness: a run with two workers dispatched three files and one of
\* them has been processed.
C20_Witness ==
    /\ pc = "running"
    /\ workers = 2
    /\ Len(tasks) = 3
    /\ \E i \in 1..Len(tasks) : future[i] \in Done

\* ---------------------------------------------------------------------------
\* Further claims about one translate_text call, checked under SpecText.

\* C16: the first request of a call carries an empty conversation_id and the
\* configured query; every later request carries the 'continue' instruction
\* and the non-empty conversation_id of the terminal record that ended the
\* preceding, truncated turn.
C16_ContinuationKeepsConversation ==
    [][Len(requests') = Len(requests) + 1 =>
          LET request == requests'[Len(requests')] IN
          IF requests = <<>>
          THEN request.conversation_id = "" /\ request.query = "query"
          ELSE /\ request.query = "continue"
               /\ request.conversation_id # ""
               /\ line_in.kind = "json"
               /\ "conversation_id" \in DOMAIN line_in.data
               /\ request.conversation_id = line_in.data.conversation_id]_vars

\* C17: the text a continuation turn appends is its output with everything up
\* to and including the first occurrence of the overlap key removed, or the
\* whole output when the key does not occur, the key being the final 100
\* characters of the whole text accumulated over all earlier turns.
C17_KeyIsEndOfAccumulatedText ==
    \A k \in 2..Len(outputs) :
        LET accumulated == Join(SubSeq(full_translation, 1, k - 1))
            key == LastChars(accumulated, OverlapWindow)
            at == Find(outputs[k], key)
        IN  full_translation[k] =
                IF at # -1 THEN DropChars(outputs[k], at + Len(key)) ELSE outputs[k]

RECURSIVE SumReportedPrompt(_)
SumReportedPrompt(rs) ==
    IF rs = <<>> THEN 0
    ELSE (IF Head(rs) = <<>> THEN 0 ELSE Head(rs)[1].prompt_tokens)
         + SumReportedPrompt(Tail(rs))

RECURSIVE SumReportedCompletion(_)
SumReportedCompletion(rs) ==
    IF rs = <<>> THEN 0
    ELSE (IF Head(rs) = <<>> THEN 0 ELSE Head(rs)[1].completion_tokens)
         + SumReportedCompletion(Tail(rs))

\* C18: a call that returns, returns a metadata record with the prompt and
\* completion tokens summed over its own turns and with the call's duration,
\* also when a turn ended without a usage-bearing terminal record; and the
\* call fails only on a status other than 200 or on an error indication,
\* never for the lack of such a record.
C18_ReturnsUsageOfOwnTurns ==
    /\ tpc = "returned" =>
          /\ "usage" \in DOMAIN result[1].metadata
          /\ result[1].metadata.usage.prompt_tokens = SumReportedPrompt(reports)
          /\ result[1].metadata.usage.completion_tokens
                = SumReportedCompletion(reports)
          /\ "translation_time" \in DOMAIN result[1].metadata
    /\ tpc = "raised" => (line_in.kind = "status" \/ CarriesError)

-----------------------------------------------------------------------------
(* Claims about one MetadataManager shared by threads (SpecLedger).        *)

Recorded == {"stored", "updated", "opened", "iterating", "at_record", "in_record", "encoded",
             "done",
             "raised"}

\* C21: the hash recorded for a translated file is the hash of the bytes that
\* were read and translated, so a file edited during its own translation is
\* still reported by needs_translation as needing translation.
C21_RecordedHashIsOfBytesRead ==
    \A t \in DOMAIN caller :
        caller[t].pc \in Recorded =>
            LET ledger == as_ledger(self_metadata)
                f      == caller[t].file
            IN  /\ f \in DOMAIN ledger
                /\ ledger[f].hash = Sha256(caller[t].content)
                /\ source[f] # caller[t].content
                       => needs_translation(ledger, f, source[f])

\* C22: when every thread has ended, the ledger file holds the in-memory
\* ledger, with a record for every file whose record was stored and saved,
\* whatever the interleaving of the updates and rewrites.
C22_DiskEqualsMemoryAfterRun ==
    (\A t \in DOMAIN caller : caller[t].pc \in Ended_ledger) =>
        /\ is_json(ledger_file)
        /\ json_load(ledger_file) = <<self_metadata>>
        /\ \A t \in DOMAIN caller :
               caller[t].pc = "done" =>
                   \E i \in 1..Len(self_metadata) : self_metadata[i].path = caller[t].file

-----------------------------------------------------------------------------
(* Claims about blocking mode (SpecText).                                  *)

\* C24: in blocking mode a translate_text call posts one request and never a
\* continuation, whatever completion tokens the response reports, and the
\* text it returns is the answer of that one response.
C24_BlockingIssuesOneRequest ==
    response_mode = "blocking" =>
        /\ Len(requests) <= 1
        /\ tpc \in {"blocking", "returned", "raised"} => Len(requests) = 1
        /\ tpc = "returned" =>
               /\ line_in.kind = "payload"
               /\ "answer" \in DOMAIN line_in.data
               /\ result[1].text = line_in.data.answer

C24_Witness ==
    /\ response_mode = "blocking"
    /\ tpc = "returned"
    /\ Len(requests) = 1
    /\ reports[1] # <<>>
    /\ reports[1][1].completion_tokens >= TokenCeiling
    /\ result[1].text = outputs[1]

-----------------------------------------------------------------------------
(* Claims about the end of a run (Spec).                                   *)

\* C23: a run that has ended has reached its summary with every dispatched
\* file counted once, as a success or as a failure: success_count plus
\* error_count is the number of dispatched files.
C23_EveryEligibleFileCountedOnce ==
    pc \in {"completed", "crashed"} =>
        /\ pc = "completed"
        /\ collected = 1..Len(tasks)
        /\ success_count + error_count = Len(tasks)

=============================================================================
